---- MODULE Spec2Model ----
(***************************************************************************)
(* bimap: a bidirectional one-to-one map built from two intrusive binary   *)
(* search trees that share their records (bimap.h, intrusive_set.h).       *)
(*                                                                         *)
(* Memory is modelled by address.  A bimap_based_node holds two node       *)
(* sub-objects: the left-tagged one at offset LeftOff and the right-tagged *)
(* one at offset RightOff.  Every pointer of a tree is the address of a    *)
(* node sub-object, and the static_casts of the source are the address     *)
(* arithmetic they compile to.                                             *)
(*                                                                         *)
(* A method is an operator from the memory before the call (a record `w`   *)
(* of all fields) to the memory after it and the value returned.           *)
(***************************************************************************)
EXTENDS Integers, Sequences, FiniteSets, TLC

\* ---------------------------------------------------------------- bounds
MaxRec == 3      \* Spec: storage_node slots the allocator can hand out
MaxKey == 2      \* Spec: either side has MaxKey + 1 keys
MaxPairKey == 1  \* SpecPair: either side has MaxPairKey + 1 keys
DeepRec == 4     \* SpecDeep: slots, and keys 0..DeepRec-1
CopyRec == 4     \* SpecCopy: slots for the records of two containers

\* ---------------------------------------------------------------- layout
NULL == 0      \* nullptr
LeftOff == 0   \* offset of node<tag_for_left> in bimap_based_node
RightOff == 1  \* offset of node<tag_for_right> in bimap_based_node
ObjSize == 2   \* address stride between two bimap_based_node objects

\* left_t{} / right_t{} : the value-initialised key of either side
DefaultKey == 0

\* n + 1 keys with the default among them, not the least: one key lies below it
KeysAround(n) == (DefaultKey - 1)..(DefaultKey + n - 1)

Key == KeysAround(MaxKey)
PairKey == KeysAround(MaxPairKey)
DeepKey == 0..(DeepRec - 1)
Containers == {"a", "b"}

\* what is left of a key in memory that holds no storage_node
NoKey == -100

Slot(i) == ObjSize * i
NumSlots ==
    CHOOSE n \in {MaxRec, DeepRec, CopyRec} : \A m \in {MaxRec, DeepRec, CopyRec} : m <= n
Storage == {Slot(i) : i \in 1..NumSlots}
Pool == {Slot(i) : i \in 1..MaxRec}
DeepPool == {Slot(i) : i \in 1..DeepRec}
CopyPool == {Slot(i) : i \in 1..CopyRec}

\* the address of each bimap object's sentinel member; "tmp" is the temporary
\* bimap(other) of the copy assignment
SentinelOf(c) ==
    CASE c = "a" -> Slot(NumSlots + 1)
      [] c = "b" -> Slot(NumSlots + 2)
      [] c = "tmp" -> Slot(NumSlots + 3)

BasedNodes == Storage \cup {SentinelOf(c) : c \in Containers \cup {"tmp"}}
NodeAddr == {b + LeftOff : b \in BasedNodes} \cup {b + RightOff : b \in BasedNodes}

Off(side) == IF side = "left" THEN LeftOff ELSE RightOff
Other(side) == IF side = "left" THEN "right" ELSE "left"

\* static_cast<base_node*>(bimap_based_node*) and back
ToBase(side, based) == based + Off(side)
ToBased(side, node) == node - Off(side)

VARIABLES
    parent,     \* node::parent of every node sub-object
    left,       \* node::left
    right,      \* node::right
    left_key,   \* storage_node::left_key, by storage address
    right_key,  \* storage_node::right_key
    live,       \* the storage_nodes that are allocated and not deleted
    m_size,     \* bimap::m_size of each container
    fault,      \* what operator delete was misused for, if ever
    op,         \* the public operation called last, with its arguments
    ret,        \* what that call returned
    erased      \* where the record the last call erased by cursor sat in each tree

vars == <<parent, left, right, left_key, right_key, live, m_size, fault, op, ret, erased>>

\* The whole memory as one value, so that the methods are operators on it.
World ==
    [parent |-> parent, left |-> left, right |-> right,
     left_key |-> left_key, right_key |-> right_key,
     live |-> live, m_size |-> m_size, fault |-> fault]

\* Sequencing: evaluate x once, then F of its value (a statement followed by the
\* rest of the function body).
Bind(x, F(_)) == CHOOSE y \in {F(v) : v \in {x}} : TRUE

\* ---------------------------------------------------------------- node
\* mutant: set_child rewrites the parent's slot and leaves new_node's parent as it was
set_child_slot_only(w, old_node, new_node) ==
    Bind(w.parent[old_node], LAMBDA p :
    IF w.left[p] = old_node
    THEN [w EXCEPT !.left[p] = new_node]
    ELSE [w EXCEPT !.right[p] = new_node])

\* node::set_child(old_node, new_node)
set_child(w, old_node, new_node) ==
    Bind(w.parent[old_node], LAMBDA p :
    Bind(IF w.left[p] = old_node
         THEN [w EXCEPT !.left[p] = new_node]
         ELSE [w EXCEPT !.right[p] = new_node], LAMBDA w1 :
    IF new_node # NULL THEN [w1 EXCEPT !.parent[new_node] = p] ELSE w1))

\* ---------------------------------------------------------------- intrusive_set
\* A set is (side, sentinel): the tag of its nodes and the node it is bound to.

\* Getter::get(*static_cast<const T*>(node))
get_key(w, side, node) ==
    IF side = "left" THEN w.left_key[ToBased(side, node)]
    ELSE w.right_key[ToBased(side, node)]

\* Compare::operator() is std::less for both sides
less(x, y) == x < y
greater(x, y) == less(y, x)
equals(x, y) == ~(greater(x, y) \/ less(x, y))

RECURSIVE Leftmost(_, _)
Leftmost(w, node) == IF w.left[node] # NULL THEN Leftmost(w, w.left[node]) ELSE node

RECURSIVE Rightmost(_, _)
Rightmost(w, node) == IF w.right[node] # NULL THEN Rightmost(w, w.right[node]) ELSE node

RECURSIVE AscendFromRight(_, _)
AscendFromRight(w, node) ==
    IF w.parent[node] # NULL /\ w.right[w.parent[node]] = node
    THEN AscendFromRight(w, w.parent[node])
    ELSE w.parent[node]

RECURSIVE AscendFromLeft(_, _)
AscendFromLeft(w, node) ==
    IF w.parent[node] # NULL /\ w.left[w.parent[node]] = node
    THEN AscendFromLeft(w, w.parent[node])
    ELSE w.parent[node]

\* iterator::operator++
Increment(w, node) ==
    IF w.right[node] # NULL THEN Leftmost(w, w.right[node])
    ELSE AscendFromRight(w, node)

\* mutant: operator-- stops at the left child instead of descending to its rightmost node
Decrement_to_left_child(w, node) ==
    IF w.left[node] # NULL THEN w.left[node]
    ELSE AscendFromLeft(w, node)

\* iterator::operator--
Decrement(w, node) ==
    IF w.left[node] # NULL THEN Rightmost(w, w.left[node])
    ELSE AscendFromLeft(w, node)

\* mutant: bound_impl forgets the node it turned left at when the left subtree
\* holds no candidate
RECURSIVE bound_impl_no_candidate(_, _, _, _, _)
bound_impl_no_candidate(w, side, sentinel, key, node) ==
    IF node = NULL THEN sentinel
    ELSE IF less(get_key(w, side, node), key)
         THEN bound_impl_no_candidate(w, side, sentinel, key, w.right[node])
    ELSE IF greater(get_key(w, side, node), key)
         THEN bound_impl_no_candidate(w, side, sentinel, key, w.left[node])
    ELSE node

RECURSIVE bound_impl(_, _, _, _, _)
bound_impl(w, side, sentinel, key, node) ==
    IF node = NULL THEN sentinel
    ELSE IF less(get_key(w, side, node), key)
         THEN bound_impl(w, side, sentinel, key, w.right[node])
    ELSE IF greater(get_key(w, side, node), key)
         THEN Bind(bound_impl(w, side, sentinel, key, w.left[node]), LAMBDA tmp :
              IF tmp # sentinel THEN tmp ELSE node)
    ELSE node

set_end(sentinel) == sentinel

set_begin(w, sentinel) == Leftmost(w, sentinel)

lower_bound(w, side, sentinel, key) ==
    bound_impl(w, side, sentinel, key, w.left[sentinel])

upper_bound(w, side, sentinel, key) ==
    Bind(lower_bound(w, side, sentinel, key), LAMBDA it :
    IF it # set_end(sentinel) /\ equals(key, get_key(w, side, it))
    THEN Increment(w, it) ELSE it)

find(w, side, sentinel, key) ==
    Bind(lower_bound(w, side, sentinel, key), LAMBDA it :
    IF it # set_end(sentinel) /\ equals(key, get_key(w, side, it))
    THEN it ELSE set_end(sentinel))

\* mutant: add_to_tree compares the node's key with the new key, not the reverse
RECURSIVE add_to_tree_reversed(_, _, _, _)
add_to_tree_reversed(w, side, obj, node) ==
    IF node = NULL THEN [w |-> w, ret |-> ToBase(side, obj)]
    ELSE IF less(get_key(w, side, node), get_key(w, side, ToBase(side, obj)))
         THEN Bind(add_to_tree_reversed(w, side, obj, w.left[node]), LAMBDA r :
              Bind([r.w EXCEPT !.left[node] = r.ret], LAMBDA w1 :
              [w |-> [w1 EXCEPT !.parent[w1.left[node]] = node], ret |-> node]))
         ELSE Bind(add_to_tree_reversed(w, side, obj, w.right[node]), LAMBDA r :
              Bind([r.w EXCEPT !.right[node] = r.ret], LAMBDA w1 :
              [w |-> [w1 EXCEPT !.parent[w1.right[node]] = node], ret |-> node]))

\* add_to_tree(obj, node): the memory after the call and the node returned
RECURSIVE add_to_tree(_, _, _, _)
add_to_tree(w, side, obj, node) ==
    IF node = NULL THEN [w |-> w, ret |-> ToBase(side, obj)]
    ELSE IF less(get_key(w, side, ToBase(side, obj)), get_key(w, side, node))
         THEN Bind(add_to_tree(w, side, obj, w.left[node]), LAMBDA r :
              Bind([r.w EXCEPT !.left[node] = r.ret], LAMBDA w1 :
              [w |-> [w1 EXCEPT !.parent[w1.left[node]] = node], ret |-> node]))
         ELSE Bind(add_to_tree(w, side, obj, w.right[node]), LAMBDA r :
              Bind([r.w EXCEPT !.right[node] = r.ret], LAMBDA w1 :
              [w |-> [w1 EXCEPT !.parent[w1.right[node]] = node], ret |-> node]))

\* intrusive_set::insert(obj, hint)
set_insert(w, side, sentinel, obj, hint) ==
    IF ~hint /\ find(w, side, sentinel, get_key(w, side, ToBase(side, obj))) # set_end(sentinel)
    THEN [w |-> w, ret |-> set_end(sentinel)]
    ELSE Bind(add_to_tree(w, side, obj, w.left[sentinel]), LAMBDA r :
         Bind([r.w EXCEPT !.left[sentinel] = r.ret], LAMBDA w1 :
         [w |-> [w1 EXCEPT !.parent[w1.left[sentinel]] = sentinel],
          ret |-> ToBase(side, obj)]))

\* mutant: the far predecessor does not take over the erased node's left subtree
erase_two_children_drops_left(w, node) ==
    Bind(Rightmost(w, w.left[node]), LAMBDA new_node :
    Bind(IF w.parent[new_node] # node
         THEN set_child(w, new_node, w.left[new_node])
         ELSE w, LAMBDA w1 :
    Bind([w1 EXCEPT !.right[new_node] = w1.right[node]], LAMBDA w2 :
    Bind([w2 EXCEPT !.parent[w2.right[node]] = new_node], LAMBDA w3 :
    set_child(w3, node, new_node)))))

\* mutant: the right subtree's parent pointer is not moved to the predecessor
erase_two_children_stale_parent(w, node) ==
    Bind(Rightmost(w, w.left[node]), LAMBDA new_node :
    Bind(IF w.parent[new_node] # node
         THEN Bind(set_child(w, new_node, w.left[new_node]), LAMBDA x1 :
              Bind([x1 EXCEPT !.left[new_node] = x1.left[node]], LAMBDA x2 :
              [x2 EXCEPT !.parent[x2.left[new_node]] = new_node]))
         ELSE w, LAMBDA w1 :
    Bind([w1 EXCEPT !.right[new_node] = w1.right[node]], LAMBDA w2 :
    set_child(w2, node, new_node))))

\* the two-children branch of intrusive_set::erase, with its set_child(node, new_node)
erase_two_children(w, node) ==
    Bind(Rightmost(w, w.left[node]), LAMBDA new_node :
    Bind(IF w.parent[new_node] # node
         THEN Bind(set_child(w, new_node, w.left[new_node]), LAMBDA x1 :
              Bind([x1 EXCEPT !.left[new_node] = x1.left[node]], LAMBDA x2 :
              [x2 EXCEPT !.parent[x2.left[new_node]] = new_node]))
         ELSE w, LAMBDA w1 :
    Bind([w1 EXCEPT !.right[new_node] = w1.right[node]], LAMBDA w2 :
    Bind([w2 EXCEPT !.parent[w2.right[node]] = new_node], LAMBDA w3 :
    set_child(w3, node, new_node)))))

\* mutant: a node with two children is kept in place, takes the key of its in-order
\* predecessor, and the predecessor's node is unlinked and returned instead
set_erase_moves_key(w, side, node) ==
    IF w.left[node] # NULL /\ w.right[node] # NULL
    THEN Bind(Rightmost(w, w.left[node]), LAMBDA pred :
         Bind(IF side = "left"
              THEN [w EXCEPT !.left_key[ToBased(side, node)] = get_key(w, side, pred)]
              ELSE [w EXCEPT !.right_key[ToBased(side, node)] = get_key(w, side, pred)],
              LAMBDA w0 :
         Bind(set_child(w0, pred, w0.left[pred]), LAMBDA w1 :
         [w |-> [w1 EXCEPT !.left[pred] = NULL, !.right[pred] = NULL,
                           !.parent[pred] = NULL],
          ret |-> ToBased(side, pred)])))
    ELSE Bind(set_child(w, node,
                        IF w.left[node] # NULL THEN w.left[node] ELSE w.right[node]),
              LAMBDA w1 :
         [w |-> [w1 EXCEPT !.left[node] = NULL, !.right[node] = NULL,
                           !.parent[node] = NULL],
          ret |-> ToBased(side, node)])

\* intrusive_set::erase(it): the memory after the call and the T* returned
set_erase(w, side, node) ==
    Bind(IF w.left[node] # NULL /\ w.right[node] # NULL
         THEN erase_two_children(w, node)
         ELSE set_child(w, node,
                        IF w.left[node] # NULL THEN w.left[node] ELSE w.right[node]),
         LAMBDA w1 :
    [w |-> [w1 EXCEPT !.left[node] = NULL, !.right[node] = NULL, !.parent[node] = NULL],
     ret |-> ToBased(side, node)])

\* mutant: swap exchanges the roots and leaves their parents pointing at the old sentinels
set_swap_roots_only(w, sentinel, other_sentinel) ==
    [w EXCEPT !.left[sentinel] = w.left[other_sentinel],
              !.left[other_sentinel] = w.left[sentinel]]

\* intrusive_set::swap (the comparison objects are stateless)
set_swap(w, sentinel, other_sentinel) ==
    Bind([w EXCEPT !.left[sentinel] = w.left[other_sentinel],
                   !.left[other_sentinel] = w.left[sentinel]], LAMBDA w1 :
    Bind(IF w1.left[sentinel] # NULL
         THEN [w1 EXCEPT !.parent[w1.left[sentinel]] = sentinel] ELSE w1, LAMBDA w2 :
    IF w2.left[other_sentinel] # NULL
    THEN [w2 EXCEPT !.parent[w2.left[other_sentinel]] = other_sentinel] ELSE w2))

\* ---------------------------------------------------------------- bimap
\* left_set / right_set are bound to the sentinel member's two node sub-objects
left_sentinel(c) == ToBase("left", SentinelOf(c))
right_sentinel(c) == ToBase("right", SentinelOf(c))

\* mutant: flip reinterprets the pointer without adjusting it to the other base
flip_unadjusted(side, it) == it

\* template_iterator::flip: base_node* -> bimap_based_node* -> flipped base_node*
flip(side, it) == ToBase(Other(side), ToBased(side, it))

\* template_iterator::operator*
deref(w, side, it) == get_key(w, side, it)

begin_left(w, c) == set_begin(w, left_sentinel(c))
end_left(c) == set_end(left_sentinel(c))
begin_right(w, c) == set_begin(w, right_sentinel(c))
end_right(c) == set_end(right_sentinel(c))

find_left(w, c, key) == find(w, "left", left_sentinel(c), key)
find_right(w, c, key) == find(w, "right", right_sentinel(c), key)

\* bimap::lower_bound_left, upper_bound_left, lower_bound_right, upper_bound_right
lower_bound_left(w, c, key) == lower_bound(w, "left", left_sentinel(c), key)
upper_bound_left(w, c, key) == upper_bound(w, "left", left_sentinel(c), key)
lower_bound_right(w, c, key) == lower_bound(w, "right", right_sentinel(c), key)
upper_bound_right(w, c, key) == upper_bound(w, "right", right_sentinel(c), key)

\* new storage_node(l, r) placed at `storage`: the keys are set and the two node
\* sub-objects are default-constructed (all three pointers nullptr)
new_storage_node(w, storage, l, r) ==
    [w EXCEPT !.live = @ \cup {storage},
              !.left_key[storage] = l,
              !.right_key[storage] = r,
              !.parent[ToBase("left", storage)] = NULL,
              !.left[ToBase("left", storage)] = NULL,
              !.right[ToBase("left", storage)] = NULL,
              !.parent[ToBase("right", storage)] = NULL,
              !.left[ToBase("right", storage)] = NULL,
              !.right[ToBase("right", storage)] = NULL]

\* whether a node sub-object of `storage` still has a relation, or is the parent
\* or a child of some node
Linked(w, storage) ==
    \E n \in {ToBase("left", storage), ToBase("right", storage)} :
        \/ w.parent[n] # NULL \/ w.left[n] # NULL \/ w.right[n] # NULL
        \/ \E m \in NodeAddr : w.parent[m] = n \/ w.left[m] = n \/ w.right[m] = n

\* delete static_cast<storage_node*>(p); deleting what is not allocated, or what a
\* tree still links, is recorded in `fault`
delete_storage_node(w, storage) ==
    [w EXCEPT !.live = @ \ {storage},
              !.left_key[storage] = NoKey,
              !.right_key[storage] = NoKey,
              !.fault = @ \cup (IF storage \in w.live THEN {} ELSE {"double delete"})
                          \cup (IF Linked(w, storage) THEN {"delete of a linked record"}
                                ELSE {})]

\* mutant: the test of perfect_forwarding_insert rejects only when both keys exist
insert_rejects_only_both(w, c, l, r, storage) ==
    IF ~(find_left(w, c, l) = end_left(c) \/ find_right(w, c, r) = end_right(c))
    THEN [w |-> w, ret |-> end_left(c)]
    ELSE Bind(new_storage_node(w, storage, l, r), LAMBDA w1 :
         Bind(set_insert(w1, "right", right_sentinel(c), storage, TRUE), LAMBDA r1 :
         Bind([r1.w EXCEPT !.m_size[c] = @ + 1], LAMBDA w2 :
         set_insert(w2, "left", left_sentinel(c), storage, TRUE))))

\* mutant: the test of perfect_forwarding_insert looks at the left key alone
insert_checks_left_only(w, c, l, r, storage) ==
    IF ~(find_left(w, c, l) = end_left(c))
    THEN [w |-> w, ret |-> end_left(c)]
    ELSE Bind(new_storage_node(w, storage, l, r), LAMBDA w1 :
         Bind(set_insert(w1, "right", right_sentinel(c), storage, TRUE), LAMBDA r1 :
         Bind([r1.w EXCEPT !.m_size[c] = @ + 1], LAMBDA w2 :
         set_insert(w2, "left", left_sentinel(c), storage, TRUE))))

\* bimap::perfect_forwarding_insert; `storage` is the address operator new returns
perfect_forwarding_insert(w, c, l, r, storage) ==
    IF ~(find_left(w, c, l) = end_left(c) /\ find_right(w, c, r) = end_right(c))
    THEN [w |-> w, ret |-> end_left(c)]
    ELSE Bind(new_storage_node(w, storage, l, r), LAMBDA w1 :
         Bind(set_insert(w1, "right", right_sentinel(c), storage, TRUE), LAMBDA r1 :
         Bind([r1.w EXCEPT !.m_size[c] = @ + 1], LAMBDA w2 :
         set_insert(w2, "left", left_sentinel(c), storage, TRUE))))

\* bimap::insert (all four overloads forward to perfect_forwarding_insert)
insert(w, c, l, r, storage) == perfect_forwarding_insert(w, c, l, r, storage)

\* mutant: erase_left steps its cursor after the node has been unlinked
erase_left_steps_late(w, c, it) ==
    Bind(set_erase(w, "right", flip("left", it)), LAMBDA r1 :
    Bind(set_erase(r1.w, "left", it), LAMBDA r2 :
    Bind(Increment(r2.w, it), LAMBDA next :
    Bind(delete_storage_node(r2.w, r2.ret), LAMBDA w3 :
    [w |-> [w3 EXCEPT !.m_size[c] = @ - 1], ret |-> next]))))

\* mutant: erase_left leaves the record linked in the right tree
erase_left_keeps_right(w, c, it) ==
    Bind(Increment(w, it), LAMBDA next :
    Bind(set_erase(w, "left", it), LAMBDA r2 :
    Bind(delete_storage_node(r2.w, r2.ret), LAMBDA w3 :
    [w |-> [w3 EXCEPT !.m_size[c] = @ - 1], ret |-> next])))

\* bimap::erase_left(left_iterator)
erase_left(w, c, it) ==
    Bind(set_erase(w, "right", flip("left", it)), LAMBDA r1 :
    Bind(Increment(r1.w, it), LAMBDA next :
    Bind(set_erase(r1.w, "left", it), LAMBDA r2 :
    Bind(delete_storage_node(r2.w, r2.ret), LAMBDA w3 :
    [w |-> [w3 EXCEPT !.m_size[c] = @ - 1], ret |-> next]))))

\* bimap::erase_right(right_iterator)
erase_right(w, c, it) ==
    Bind(set_erase(w, "left", flip("right", it)), LAMBDA r1 :
    Bind(Increment(r1.w, it), LAMBDA next :
    Bind(set_erase(r1.w, "right", it), LAMBDA r2 :
    Bind(delete_storage_node(r2.w, r2.ret), LAMBDA w3 :
    [w |-> [w3 EXCEPT !.m_size[c] = @ - 1], ret |-> next]))))

\* bimap::erase_left(const left_t&)
erase_left_key(w, c, key) ==
    Bind(find_left(w, c, key), LAMBDA it :
    IF it # end_left(c) THEN [w |-> erase_left(w, c, it).w, ret |-> TRUE]
    ELSE [w |-> w, ret |-> FALSE])

\* bimap::erase_right(const right_t&)
erase_right_key(w, c, key) ==
    Bind(find_right(w, c, key), LAMBDA it :
    IF it # end_right(c) THEN [w |-> erase_right(w, c, it).w, ret |-> TRUE]
    ELSE [w |-> w, ret |-> FALSE])

\* mutant: the range form erases its first element and stops
erase_left_range_once(w, c, first, last) ==
    IF first # last
    THEN [w |-> erase_left(w, c, first).w, ret |-> last]
    ELSE [w |-> w, ret |-> last]

\* bimap::erase_left(first, last)
RECURSIVE erase_left_range(_, _, _, _)
erase_left_range(w, c, first, last) ==
    IF first # last
    THEN Bind(erase_left(w, c, first), LAMBDA r :
         erase_left_range(r.w, c, r.ret, last))
    ELSE [w |-> w, ret |-> last]

\* bimap::erase_right(first, last)
RECURSIVE erase_right_range(_, _, _, _)
erase_right_range(w, c, first, last) ==
    IF first # last
    THEN Bind(erase_right(w, c, first), LAMBDA r :
         erase_right_range(r.w, c, r.ret, last))
    ELSE [w |-> w, ret |-> last]

\* what a caller is left with when an accessor throws std::out_of_range: no key
OutOfRange == -200

\* mutant: at_left dereferences the left cursor it found, without flip
at_left_unflipped(w, c, key) ==
    Bind(find_left(w, c, key), LAMBDA left_it :
    IF left_it = end_left(c) THEN [w |-> w, ret |-> OutOfRange]
    ELSE [w |-> w, ret |-> deref(w, "left", left_it)])

\* bimap::at_left
at_left(w, c, key) ==
    Bind(find_left(w, c, key), LAMBDA left_it :
    IF left_it = end_left(c) THEN [w |-> w, ret |-> OutOfRange]
    ELSE [w |-> w, ret |-> deref(w, "right", flip("left", left_it))])

\* bimap::at_right
at_right(w, c, key) ==
    Bind(find_right(w, c, key), LAMBDA right_it :
    IF right_it = end_right(c) THEN [w |-> w, ret |-> OutOfRange]
    ELSE [w |-> w, ret |-> deref(w, "left", flip("right", right_it))])

\* mutant: at_left_or_default returns the key of the cursor insert gave, without flip
at_left_or_default_unflipped(w, c, key, storage) ==
    Bind(find_left(w, c, key), LAMBDA it :
    IF it # end_left(c)
    THEN [w |-> w, ret |-> deref(w, "right", flip("left", it))]
    ELSE Bind(DefaultKey, LAMBDA tmp :
         Bind(find_right(w, c, tmp), LAMBDA it2 :
         Bind(IF it2 # end_right(c) THEN erase_right(w, c, it2).w ELSE w, LAMBDA w1 :
         Bind(insert(w1, c, key, tmp, storage), LAMBDA r :
         [w |-> r.w, ret |-> deref(r.w, "left", r.ret)])))))

\* bimap::at_left_or_default
at_left_or_default(w, c, key, storage) ==
    Bind(find_left(w, c, key), LAMBDA it :
    IF it # end_left(c)
    THEN [w |-> w, ret |-> deref(w, "right", flip("left", it))]
    ELSE Bind(DefaultKey, LAMBDA tmp :
         Bind(find_right(w, c, tmp), LAMBDA it2 :
         Bind(IF it2 # end_right(c) THEN erase_right(w, c, it2).w ELSE w, LAMBDA w1 :
         Bind(insert(w1, c, key, tmp, storage), LAMBDA r :
         [w |-> r.w, ret |-> deref(r.w, "right", flip("left", r.ret))])))))

\* bimap::at_right_or_default
at_right_or_default(w, c, key, storage) ==
    Bind(find_right(w, c, key), LAMBDA it :
    IF it # end_right(c)
    THEN [w |-> w, ret |-> deref(w, "left", flip("right", it))]
    ELSE Bind(DefaultKey, LAMBDA tmp :
         Bind(find_left(w, c, tmp), LAMBDA it2 :
         Bind(IF it2 # end_left(c) THEN erase_left(w, c, it2).w ELSE w, LAMBDA w1 :
         Bind(insert(w1, c, tmp, key, storage), LAMBDA r :
         [w |-> r.w, ret |-> deref(r.w, "left", r.ret)])))))

\* bimap::swap
swap(w, c, other) ==
    Bind(set_swap(w, left_sentinel(c), left_sentinel(other)), LAMBDA w1 :
    Bind(set_swap(w1, right_sentinel(c), right_sentinel(other)), LAMBDA w2 :
    [w2 EXCEPT !.m_size[c] = w2.m_size[other], !.m_size[other] = w2.m_size[c]]))

\* the member initialisers of a bimap under construction: bimap_based_node sentinel
\* (all pointers nullptr) and m_size{}
construct(w, c) ==
    [w EXCEPT !.m_size[c] = 0,
              !.parent[left_sentinel(c)] = NULL,
              !.left[left_sentinel(c)] = NULL,
              !.right[left_sentinel(c)] = NULL,
              !.parent[right_sentinel(c)] = NULL,
              !.left[right_sentinel(c)] = NULL,
              !.right[right_sentinel(c)] = NULL]

\* the loop of bimap(const bimap& other), from cursor `it` of other's left tree;
\* `allocs` are the addresses operator new returns, in order
RECURSIVE copy_loop(_, _, _, _, _)
copy_loop(w, c, other, it, allocs) ==
    IF it # end_left(other)
    THEN Bind(insert(w, c, deref(w, "left", it),
                     deref(w, "right", flip("left", it)), Head(allocs)), LAMBDA r :
         Bind(Increment(r.w, it), LAMBDA next :
         copy_loop(r.w, c, other, next, Tail(allocs))))
    ELSE w

\* mutant: the copy constructor takes over the roots of other's trees
copy_construct_shallow(w, c, other, allocs) ==
    Bind(construct(w, c), LAMBDA w1 :
    [w1 EXCEPT !.left[left_sentinel(c)] = w1.left[left_sentinel(other)],
               !.left[right_sentinel(c)] = w1.left[right_sentinel(other)],
               !.m_size[c] = w1.m_size[other]])

\* bimap(const bimap& other)
copy_construct(w, c, other, allocs) ==
    Bind(construct(w, c), LAMBDA w1 :
    copy_loop(w1, c, other, begin_left(w1, other), allocs))

\* mutant: the destructor releases nothing
destroy_nothing(w, c) == w

\* ~bimap()
destroy(w, c) == erase_left_range(w, c, begin_left(w, c), end_left(c)).w

\* bimap::operator=(const bimap& other); the temporary bimap(other) lives at "tmp"
copy_assign(w, c, other, allocs) ==
    IF other # c
    THEN Bind(copy_construct(w, "tmp", other, allocs), LAMBDA w1 :
         Bind(swap(w1, "tmp", c), LAMBDA w2 :
         [w |-> destroy(w2, "tmp"), ret |-> c]))
    ELSE [w |-> w, ret |-> c]

\* mutant: the loop of operator== compares the left keys alone
RECURSIVE equal_loop_left_only(_, _, _, _, _)
equal_loop_left_only(w, a, b, it1, it2) ==
    IF it2 # end_left(b)
    THEN IF \/ less(deref(w, "left", it1), deref(w, "left", it2))
            \/ less(deref(w, "left", it2), deref(w, "left", it1))
         THEN FALSE
         ELSE equal_loop_left_only(w, a, b, Increment(w, it1), Increment(w, it2))
    ELSE TRUE

\* the loop of operator==, from cursors it1 of a and it2 of b
RECURSIVE equal_loop(_, _, _, _, _)
equal_loop(w, a, b, it1, it2) ==
    IF it2 # end_left(b)
    THEN IF \/ less(deref(w, "left", it1), deref(w, "left", it2))
            \/ less(deref(w, "left", it2), deref(w, "left", it1))
            \/ less(deref(w, "right", flip("left", it1)), deref(w, "right", flip("left", it2)))
            \/ less(deref(w, "right", flip("left", it2)), deref(w, "right", flip("left", it1)))
         THEN FALSE
         ELSE equal_loop(w, a, b, Increment(w, it1), Increment(w, it2))
    ELSE TRUE

\* operator==(bimap const& a, bimap const& b)
bimap_equal(w, a, b) ==
    IF w.m_size[a] # w.m_size[b] THEN FALSE
    ELSE equal_loop(w, a, b, begin_left(w, a), begin_left(w, b))

\* operator!=(bimap const& a, bimap const& b)
bimap_not_equal(w, a, b) == ~bimap_equal(w, a, b)

\* bimap c(std::move(other)): bimap declares a copy constructor, a copy assignment
\* and a destructor and no move member, so no move constructor is implicit and
\* overload resolution selects bimap(const bimap&)
move_construct(w, c, other, allocs) == copy_construct(w, c, other, allocs)

\* c = std::move(other): likewise selects operator=(const bimap&)
move_assign(w, c, other, allocs) == copy_assign(w, c, other, allocs)

\* ---------------------------------------------------------------- state machine
\* the nodes linked below `node`, and the nodes of the tree bound to `sentinel`
RECURSIVE SubtreeNodes(_, _)
SubtreeNodes(w, node) ==
    IF node = NULL THEN {}
    ELSE {node} \cup SubtreeNodes(w, w.left[node]) \cup SubtreeNodes(w, w.right[node])

TreeNodes(w, sentinel) == SubtreeNodes(w, w.left[sentinel])

\* where `node` sits in its tree: its children, which branch erase would take on
\* it ("far": the in-order predecessor is not its left child), whether it is the root
NodeShape(w, node) ==
    [children |-> IF w.left[node] # NULL /\ w.right[node] # NULL
                  THEN IF w.parent[Rightmost(w, w.left[node])] # node
                       THEN "two, predecessor far" ELSE "two, predecessor near"
                  ELSE IF w.left[node] # NULL THEN "left"
                  ELSE IF w.right[node] # NULL THEN "right"
                  ELSE "none",
     root |-> w.left[w.parent[node]] = node /\ w.parent[w.parent[node]] = NULL]

NoShape ==
    [left |-> [children |-> "no erase", root |-> FALSE],
     right |-> [children |-> "no erase", root |-> FALSE]]

\* the shapes, in both trees, of the record that cursor `it` of tree `side` addresses
ShapeAt(w, side, it) ==
    IF ToBased(side, it) \notin w.live THEN NoShape
    ELSE [left |-> NodeShape(w, ToBase("left", ToBased(side, it))),
          right |-> NodeShape(w, ToBase("right", ToBased(side, it)))]

\* bimap(): both containers start empty; no storage_node exists
Init ==
    /\ parent = [n \in NodeAddr |-> NULL]
    /\ left = [n \in NodeAddr |-> NULL]
    /\ right = [n \in NodeAddr |-> NULL]
    /\ left_key = [s \in Storage |-> NoKey]
    /\ right_key = [s \in Storage |-> NoKey]
    /\ live = {}
    /\ m_size = [c \in Containers \cup {"tmp"} |-> 0]
    /\ fault = {}
    /\ op = <<"bimap">>
    /\ ret = NULL
    /\ erased = NoShape

\* a call returns: the memory it leaves and the value it returns
Return(call, r) ==
    /\ parent' = r.w.parent
    /\ left' = r.w.left
    /\ right' = r.w.right
    /\ left_key' = r.w.left_key
    /\ right_key' = r.w.right_key
    /\ live' = r.w.live
    /\ m_size' = r.w.m_size
    /\ fault' = r.w.fault
    /\ op' = call
    /\ ret' = r.ret

\* a call that erases no cursor
NotErase == erased' = NoShape

\* whether insert(l, r) passes its test and allocates
WouldInsert(w, c, l, r) ==
    find_left(w, c, l) = end_left(c) /\ find_right(w, c, r) = end_right(c)

\* `pool` holds the addresses operator new may return; `storage` is the one its
\* next call returns, if there is one (an exhausted pool allows only the insert
\* that is rejected)
Insert(c, l, r, pool) ==
    \E storage \in (IF pool \ live # {} THEN pool \ live ELSE {NULL}) :
        /\ storage = NULL => ~WouldInsert(World, c, l, r)
        /\ \E res \in {insert(World, c, l, r, storage)} :
               Return(<<"insert", c, l, r>>, res) /\ NotErase

\* a cursor handed to erase addresses an element of the container
EraseLeft(c, it) ==
    /\ it \in TreeNodes(World, left_sentinel(c))
    /\ \E res \in {erase_left(World, c, it)} : Return(<<"erase_left", c, it>>, res)
    /\ erased' = ShapeAt(World, "left", it)

EraseRight(c, it) ==
    /\ it \in TreeNodes(World, right_sentinel(c))
    /\ \E res \in {erase_right(World, c, it)} : Return(<<"erase_right", c, it>>, res)
    /\ erased' = ShapeAt(World, "right", it)

EraseLeftKey(c, key) ==
    \E res \in {erase_left_key(World, c, key)} :
        /\ Return(<<"erase_left_key", c, key>>, res)
        /\ erased' = ShapeAt(World, "left", find_left(World, c, key))

EraseRightKey(c, key) ==
    \E res \in {erase_right_key(World, c, key)} :
        /\ Return(<<"erase_right_key", c, key>>, res)
        /\ erased' = ShapeAt(World, "right", find_right(World, c, key))

\* the cursors operator++ reaches from `it`, `it` and the end cursor included
RECURSIVE ReachableFrom(_, _, _)
ReachableFrom(w, it, sentinel) ==
    IF it = sentinel THEN {it}
    ELSE {it} \cup ReachableFrom(w, Increment(w, it), sentinel)

\* a range handed to erase is [first, last) of the container: first is a cursor of
\* its tree or the end, and last is reached from first by increments
EraseLeftRange(c, first, last) ==
    /\ first \in TreeNodes(World, left_sentinel(c)) \cup {end_left(c)}
    /\ last \in ReachableFrom(World, first, end_left(c))
    /\ \E res \in {erase_left_range(World, c, first, last)} :
           Return(<<"erase_left_range", c, first, last>>, res)
    /\ erased' = IF first = last THEN NoShape ELSE ShapeAt(World, "left", first)

EraseRightRange(c, first, last) ==
    /\ first \in TreeNodes(World, right_sentinel(c)) \cup {end_right(c)}
    /\ last \in ReachableFrom(World, first, end_right(c))
    /\ \E res \in {erase_right_range(World, c, first, last)} :
           Return(<<"erase_right_range", c, first, last>>, res)
    /\ erased' = IF first = last THEN NoShape ELSE ShapeAt(World, "right", first)

\* the range forms called with `first` and any `last` reached from it
EraseLeftFrom(c, first) ==
    /\ first \in TreeNodes(World, left_sentinel(c)) \cup {end_left(c)}
    /\ \E last \in ReachableFrom(World, first, end_left(c)) :
           EraseLeftRange(c, first, last)

EraseRightFrom(c, first) ==
    /\ first \in TreeNodes(World, right_sentinel(c)) \cup {end_right(c)}
    /\ \E last \in ReachableFrom(World, first, end_right(c)) :
           EraseRightRange(c, first, last)

AtLeft(c, key) ==
    \E res \in {at_left(World, c, key)} : Return(<<"at_left", c, key>>, res) /\ NotErase

AtRight(c, key) ==
    \E res \in {at_right(World, c, key)} : Return(<<"at_right", c, key>>, res) /\ NotErase

\* at_left_or_default allocates unless the key is present; the address it gets may
\* be the one its own erase_right has just released
AtLeftOrDefault(c, key, pool) ==
    \E storage \in (IF find_left(World, c, key) # end_left(c) THEN {NULL}
                    ELSE (pool \ live) \cup
                         ({ToBased("right", find_right(World, c, DefaultKey))} \cap live)) :
        \E res \in {at_left_or_default(World, c, key, storage)} :
            /\ Return(<<"at_left_or_default", c, key>>, res)
            /\ erased' = IF find_left(World, c, key) # end_left(c) THEN NoShape
                         ELSE ShapeAt(World, "right", find_right(World, c, DefaultKey))

AtRightOrDefault(c, key, pool) ==
    \E storage \in (IF find_right(World, c, key) # end_right(c) THEN {NULL}
                    ELSE (pool \ live) \cup
                         ({ToBased("left", find_left(World, c, DefaultKey))} \cap live)) :
        \E res \in {at_right_or_default(World, c, key, storage)} :
            /\ Return(<<"at_right_or_default", c, key>>, res)
            /\ erased' = IF find_right(World, c, key) # end_right(c) THEN NoShape
                         ELSE ShapeAt(World, "left", find_left(World, c, DefaultKey))

Swap(c, other) ==
    \E w2 \in {swap(World, c, other)} :
        Return(<<"swap", c, other>>, [w |-> w2, ret |-> NULL]) /\ NotErase

\* the sequences of n distinct addresses from S
RECURSIVE Allocations(_, _)
Allocations(S, n) ==
    IF n = 0 THEN {<<>>}
    ELSE UNION {{<<x>> \o t : t \in Allocations(S \ {x}, n - 1)} : x \in S}

CopyAssign(c, other, pool) ==
    \E allocs \in Allocations(pool \ live,
                              IF other = c THEN 0
                              ELSE Cardinality(TreeNodes(World, left_sentinel(other)))) :
        \E res \in {copy_assign(World, c, other, allocs)} :
            Return(<<"copy_assign", c, other>>, res) /\ NotErase

MoveAssign(c, other, pool) ==
    \E allocs \in Allocations(pool \ live,
                              IF other = c THEN 0
                              ELSE Cardinality(TreeNodes(World, left_sentinel(other)))) :
        \E res \in {move_assign(World, c, other, allocs)} :
            Return(<<"move_assign", c, other>>, res) /\ NotErase

\* a == b
Equal(a, b) ==
    \E res \in {bimap_equal(World, a, b)} :
        Return(<<"equal", a, b>>, [w |-> World, ret |-> res]) /\ NotErase

\* the object at `c` ends its lifetime (~bimap) and a bimap is copy-constructed
\* from `other` in its place; the addresses ~bimap released can be handed out again
CopyConstruct(c, other, pool) ==
    /\ c # other
    /\ \E w1 \in {destroy(World, c)} :
           \E allocs \in Allocations(pool \ w1.live,
                                     Cardinality(TreeNodes(World, left_sentinel(other)))) :
               \E w2 \in {copy_construct(w1, c, other, allocs)} :
                   Return(<<"copy_construct", c, other>>, [w |-> w2, ret |-> c])
    /\ NotErase

\* the same with bimap c(std::move(other))
MoveConstruct(c, other, pool) ==
    /\ c # other
    /\ \E w1 \in {destroy(World, c)} :
           \E allocs \in Allocations(pool \ w1.live,
                                     Cardinality(TreeNodes(World, left_sentinel(other)))) :
               \E w2 \in {move_construct(w1, c, other, allocs)} :
                   Return(<<"move_construct", c, other>>, [w |-> w2, ret |-> c])
    /\ NotErase

\* ---- Spec: one container, every operation on it, any keys of Key
Next ==
    \/ \E l \in Key, r \in Key : Insert("a", l, r, Pool)
    \/ \E it \in NodeAddr : EraseLeft("a", it)
    \/ \E it \in NodeAddr : EraseRight("a", it)
    \/ \E key \in Key : EraseLeftKey("a", key)
    \/ \E key \in Key : EraseRightKey("a", key)
    \/ \E key \in Key : AtLeft("a", key)
    \/ \E key \in Key : AtRight("a", key)
    \/ \E key \in Key : AtLeftOrDefault("a", key, Pool)
    \/ \E key \in Key : AtRightOrDefault("a", key, Pool)

Spec == Init /\ [][Next]_vars

\* ---- SpecPair: two containers; every operation that changes a container, with
\* swap, copy and move between them and the range forms of erase
NextPair ==
    \/ \E c \in Containers, l \in PairKey, r \in PairKey : Insert(c, l, r, Pool)
    \/ \E c \in Containers, it \in NodeAddr : EraseLeft(c, it)
    \/ \E c \in Containers, it \in NodeAddr : EraseRight(c, it)
    \/ \E c \in Containers, key \in PairKey : EraseLeftKey(c, key)
    \/ \E c \in Containers, key \in PairKey : EraseRightKey(c, key)
    \/ \E c \in Containers, key \in PairKey : AtLeftOrDefault(c, key, Pool)
    \/ \E c \in Containers, key \in PairKey : AtRightOrDefault(c, key, Pool)
    \/ \E c \in Containers, other \in Containers : Swap(c, other)
    \/ \E c \in Containers, other \in Containers : CopyAssign(c, other, Pool)
    \/ \E c \in Containers, other \in Containers : MoveAssign(c, other, Pool)
    \/ \E c \in Containers, other \in Containers : MoveConstruct(c, other, Pool)
    \/ \E c \in Containers, first \in NodeAddr : EraseLeftFrom(c, first)
    \/ \E c \in Containers, first \in NodeAddr : EraseRightFrom(c, first)

SpecPair == Init /\ [][NextPair]_vars

\* ---- SpecDeep: one container of up to DeepRec pairs, inserts and cursor erases
\* only; a left key l is inserted with right key l or DeepRight(l), so that the two
\* trees take equal shapes and different shapes
DeepRight(l) == (3 * l + 1) % DeepRec

NextDeep ==
    \/ \E l \in DeepKey : \E r \in {l, DeepRight(l)} : Insert("a", l, r, DeepPool)
    \/ \E it \in NodeAddr : EraseLeft("a", it)
    \/ \E it \in NodeAddr : EraseRight("a", it)

SpecDeep == Init /\ [][NextDeep]_vars

\* ---- SpecRange: one container, inserts and the range forms of erase
NextRange ==
    \/ \E l \in Key, r \in Key : Insert("a", l, r, Pool)
    \/ \E first \in NodeAddr : EraseLeftFrom("a", first)
    \/ \E first \in NodeAddr : EraseRightFrom("a", first)

SpecRange == Init /\ [][NextRange]_vars

\* ---- SpecCopy: two containers over CopyRec slots, so that a container of two
\* pairs can be copied; inserts, cursor erases, default access, swap, copies and
\* comparison.  operator new is first-fit here: it returns the
\* lowest free addresses (Spec and SpecPair let it return any).
RECURSIVE Lowest(_, _)
Lowest(S, n) ==
    IF n = 0 \/ S = {} THEN {}
    ELSE LET m == CHOOSE x \in S : \A y \in S : x <= y
         IN  {m} \cup Lowest(S \ {m}, n - 1)

\* the pool of an allocator about to return the n lowest free addresses of `pool`
FirstFit(pool, n) == live \cup Lowest(pool \ live, n)

NextCopy ==
    \/ \E c \in Containers, l \in PairKey, r \in PairKey :
           Insert(c, l, r, FirstFit(CopyPool, 1))
    \/ \E c \in Containers, it \in NodeAddr : EraseLeft(c, it)
    \/ \E c \in Containers, key \in PairKey :
           AtLeftOrDefault(c, key, FirstFit(CopyPool, 1))
    \/ \E c \in Containers : \E other \in Containers \ {c} : Swap(c, other)
    \/ \E c \in Containers, other \in Containers :
           CopyAssign(c, other, FirstFit(CopyPool, m_size[other]))
    \/ \E c \in Containers, other \in Containers :
           CopyConstruct(c, other, FirstFit(CopyPool, m_size[other]))
    \/ \E c \in Containers, other \in Containers : Equal(c, other)

SpecCopy == Init /\ [][NextCopy]_vars

\* ---------------------------------------------------------------- observations
\* the storage_nodes linked in either tree of a container
LeftRecords(w, c) == {ToBased("left", n) : n \in TreeNodes(w, left_sentinel(c))}
RightRecords(w, c) == {ToBased("right", n) : n \in TreeNodes(w, right_sentinel(c))}

\* the pairs a container holds
Pairs(w, c) == {<<w.left_key[s], w.right_key[s]>> : s \in LeftRecords(w, c)}

\* the pair (l, r) is found from both sides, each side leading to the other
Found(w, c, l, r) ==
    /\ find_left(w, c, l) # end_left(c)
    /\ deref(w, "right", flip("left", find_left(w, c, l))) = r
    /\ find_right(w, c, r) # end_right(c)
    /\ deref(w, "left", flip("right", find_right(w, c, r))) = l

\* the memory after a step; World is the memory before it
WorldAfter == World'

\* the cursors met stepping from `it` by operator++ until `last`; a step that
\* leaves the nodes, or does not arrive within `fuel` steps, ends the walk with NULL
RECURSIVE Walk(_, _, _, _)
Walk(w, it, last, fuel) ==
    IF it = last THEN <<>>
    ELSE IF fuel = 0 \/ it \notin NodeAddr THEN <<NULL>>
    ELSE <<it>> \o Walk(w, Increment(w, it), last, fuel - 1)

LeftWalk(w, c) == Walk(w, begin_left(w, c), end_left(c), Cardinality(NodeAddr))
RightWalk(w, c) == Walk(w, begin_right(w, c), end_right(c), Cardinality(NodeAddr))

\* a walk of tree `side` visits exactly the records of `recs`, each once, in
\* strictly increasing order of that side's keys
VisitsInOrder(w, side, walk, recs) ==
    /\ Len(walk) = Cardinality(recs)
    /\ {ToBased(side, walk[i]) : i \in DOMAIN walk} = recs
    /\ \A i \in 1..(Len(walk) - 1) :
           less(get_key(w, side, walk[i]), get_key(w, side, walk[i + 1]))

\* ---------------------------------------------------------------- claims

\* C1: after any sequence of public operations (insert, erase by cursor and by
\* key, at_*_or_default, swap, copy assignment) the records reachable from the
\* sentinel in the left tree are those reachable in the right tree, and size()
\* is their number.
C1_ProjectionsAgree ==
    \A w \in {World} : \A c \in Containers :
        /\ LeftRecords(w, c) = RightRecords(w, c)
        /\ m_size[c] = Cardinality(LeftRecords(w, c))

\* C1 witness: a copy assignment between two containers that both hold pairs
C1_Witness ==
    /\ op[1] = "copy_assign"
    /\ op[2] # op[3]
    /\ m_size["a"] = 1
    /\ m_size["b"] = 1
    /\ Cardinality(live) = 2
    /\ LeftRecords(World, "a") # LeftRecords(World, "b")

\* C2: no two live records have equivalent left keys, and no two have equivalent
\* right keys, after any sequence of operations, at_*_or_default included.
C2_OneToOne ==
    \A s1 \in LeftRecords(World, "a") \cup RightRecords(World, "a") :
        \A s2 \in LeftRecords(World, "a") \cup RightRecords(World, "a") :
            s1 # s2 => /\ ~equals(left_key[s1], left_key[s2])
                       /\ ~equals(right_key[s1], right_key[s2])

\* C2 witness: at_left_or_default has just moved the default right value from one
\* left key to another
C2_Witness ==
    /\ op[1] = "at_left_or_default"
    /\ erased # NoShape
    /\ m_size["a"] = MaxRec - 1
    /\ ret = DefaultKey
    /\ Found(World, "a", op[3], DefaultKey)
    /\ op[3] # DefaultKey

\* C3: insert(l, r) with l absent on the left and r absent on the right adds one
\* to size() and returns a left cursor that dereferences to l; afterwards (l, r)
\* is found from both sides, and so is every pair that was there before.
C3_InsertStep ==
    \A before \in {World}, after \in {WorldAfter} :
        (op'[1] = "insert" /\ WouldInsert(before, op'[2], op'[3], op'[4])) =>
            /\ after.m_size[op'[2]] = before.m_size[op'[2]] + 1
            /\ ret' \in TreeNodes(after, left_sentinel(op'[2]))
            /\ deref(after, "left", ret') = op'[3]
            /\ Found(after, op'[2], op'[3], op'[4])
            /\ \A p \in Pairs(before, op'[2]) : Found(after, op'[2], p[1], p[2])

C3_InsertAdds == [][C3_InsertStep]_vars

\* C3 witness: the insert that fills the container
C3_Witness ==
    /\ op[1] = "insert"
    /\ ret # end_left("a")
    /\ m_size["a"] = MaxRec
    /\ Found(World, "a", op[3], op[4])

\* C4: insert(l, r) with l present on the left or r present on the right returns
\* end_left() and changes nothing: size, links, keys and live records are as before.
C4_RejectStep ==
    \A before \in {World}, after \in {WorldAfter} :
        (op'[1] = "insert" /\ ~WouldInsert(before, op'[2], op'[3], op'[4])) =>
            /\ ret' = end_left(op'[2])
            /\ after = before

C4_InsertRejects == [][C4_RejectStep]_vars

\* C4 witness: a rejected insert whose left key is new and whose right key is taken
C4_Witness ==
    /\ op[1] = "insert"
    /\ ret = end_left("a")
    /\ find_left(World, "a", op[3]) = end_left("a")
    /\ find_right(World, "a", op[4]) # end_right("a")
    /\ m_size["a"] = MaxRec - 1

\* C5: erase_left(cursor) on a live pair (l, r) removes it from both sides:
\* find_left(l) and find_right(r) are end, size() is one less, and every other
\* pair is still found from both sides with the same partner; erase_right
\* likewise; whatever the shape of the node in either tree.
ErasedPairGone(before, after, c, s) ==
    /\ find_left(after, c, before.left_key[s]) = end_left(c)
    /\ find_right(after, c, before.right_key[s]) = end_right(c)
    /\ after.m_size[c] = before.m_size[c] - 1
    /\ \A s2 \in LeftRecords(before, c) \ {s} :
           Found(after, c, before.left_key[s2], before.right_key[s2])

C5_EraseStep ==
    \A before \in {World}, after \in {WorldAfter} :
        /\ op'[1] = "erase_left" =>
               ErasedPairGone(before, after, op'[2], ToBased("left", op'[3]))
        /\ op'[1] = "erase_right" =>
               ErasedPairGone(before, after, op'[2], ToBased("right", op'[3]))

C5_EraseRemovesPair == [][C5_EraseStep]_vars

\* C5 witness: erase_left of a node that is the root of the left tree with two
\* children and a far predecessor, and sits elsewhere, with one child, in the right tree
C5_Witness ==
    /\ op[1] = "erase_left"
    /\ erased.left.children = "two, predecessor far"
    /\ erased.left.root
    /\ erased.right.children \in {"left", "right"}
    /\ ~erased.right.root
    /\ m_size["a"] = DeepRec - 1

\* C6: erase_left(cursor) returns the cursor of the live pair with the smallest
\* left key greater than the erased one, a node of the tree after the erase, or
\* end_left() if there is none; erase_right likewise in right order.
ReturnsSuccessor(after, side, sentinel, key) ==
    LET above == {n \in TreeNodes(after, sentinel) : less(key, get_key(after, side, n))}
    IN  IF above = {} THEN ret' = set_end(sentinel)
        ELSE /\ ret' \in above
             /\ \A n \in above : ~less(get_key(after, side, n), get_key(after, side, ret'))

C6_SuccessorStep ==
    \A before \in {World}, after \in {WorldAfter} :
        /\ op'[1] = "erase_left" =>
               ReturnsSuccessor(after, "left", left_sentinel(op'[2]),
                                get_key(before, "left", op'[3]))
        /\ op'[1] = "erase_right" =>
               ReturnsSuccessor(after, "right", right_sentinel(op'[2]),
                                get_key(before, "right", op'[3]))

C6_EraseReturnsNext == [][C6_SuccessorStep]_vars

\* C6 witness: erase_left of a node without children whose successor, the cursor
\* returned, is an ancestor and not its parent
C6_Witness ==
    /\ op[1] = "erase_left"
    /\ erased.left.children = "none"
    /\ ~erased.left.root
    /\ ret # end_left("a")
    /\ ret \in TreeNodes(World, left_sentinel("a"))
    /\ left[ret] # NULL
    /\ right[left[ret]] = NULL
    /\ left[left[ret]] # NULL
    /\ m_size["a"] = DeepRec - 1

\* C7: after any sequence of inserts and erases from either side, stepping from
\* begin_left() to end_left() visits every live pair exactly once in strictly
\* increasing left-key order, and from begin_right() to end_right() in strictly
\* increasing right-key order.
C7_InOrderTraversal ==
    \A w \in {World} :
        /\ VisitsInOrder(w, "left", LeftWalk(w, "a"), live)
        /\ VisitsInOrder(w, "right", RightWalk(w, "a"), live)

\* C7 witness: the walk is over the pairs left by erase_right of a node with two
\* children in both trees, its predecessor far in the right tree
C7_Witness ==
    /\ op[1] = "erase_right"
    /\ erased.right.children = "two, predecessor far"
    /\ erased.left.children \in {"two, predecessor near", "two, predecessor far"}
    /\ Len(LeftWalk(World, "a")) = DeepRec - 1
    /\ Len(RightWalk(World, "a")) = DeepRec - 1

\* C8: for every live pair (l, r), flip of the left cursor addressing l is the
\* right cursor addressing r and dereferences to r, flip of that right cursor is
\* the left cursor again and dereferences to l, flip(flip(c)) = c on either side,
\* and flip maps end_left() to end_right() and back.
C8_Flip ==
    /\ \A w \in {World} : \A s \in live :
           LET lc == find_left(w, "a", left_key[s])
               rc == find_right(w, "a", right_key[s])
           IN  /\ lc # end_left("a")
               /\ rc # end_right("a")
               /\ flip("left", lc) = rc
               /\ deref(w, "right", flip("left", lc)) = right_key[s]
               /\ flip("right", rc) = lc
               /\ deref(w, "left", flip("right", rc)) = left_key[s]
               /\ flip("right", flip("left", lc)) = lc
               /\ flip("left", flip("right", rc)) = rc
    /\ flip("left", end_left("a")) = end_right("a")
    /\ flip("right", end_right("a")) = end_left("a")
    /\ flip("right", flip("left", end_left("a"))) = end_left("a")
    /\ flip("left", flip("right", end_right("a"))) = end_right("a")

\* C8 witness: a full container in which some pair is the root of one tree and a
\* leaf of the other
C8_Witness ==
    /\ m_size["a"] = MaxRec
    /\ \E s \in live :
           /\ left_key[s] # right_key[s]
           /\ flip("left", find_left(World, "a", left_key[s])) = ToBase("right", s)
           /\ NodeShape(World, ToBase("left", s)).root
           /\ NodeShape(World, ToBase("right", s)).children = "none"

\* C9: at_left(k) returns the right key paired with k when k is in the left tree
\* and throws key-not-found when it is not; at_right likewise; the container is
\* unchanged either way.
C9_AtStep ==
    \A before \in {World}, after \in {WorldAfter} :
        /\ op'[1] = "at_left" =>
               /\ after = before
               /\ IF \E p \in Pairs(before, op'[2]) : p[1] = op'[3]
                  THEN <<op'[3], ret'>> \in Pairs(before, op'[2])
                  ELSE ret' = OutOfRange
        /\ op'[1] = "at_right" =>
               /\ after = before
               /\ IF \E p \in Pairs(before, op'[2]) : p[2] = op'[3]
                  THEN <<ret', op'[3]>> \in Pairs(before, op'[2])
                  ELSE ret' = OutOfRange

C9_AtOrThrow == [][C9_AtStep]_vars

\* C9 witness: at_left throws on a container that holds other keys
C9_Witness ==
    /\ op[1] = "at_left"
    /\ ret = OutOfRange
    /\ m_size["a"] = MaxRec - 1
    /\ find_left(World, "a", op[3]) = end_left("a")

\* C10: at_left_or_default(k) with k absent leaves (k, D) live, D the default
\* right value, and returns D; a pair (k', D) there before is gone and size() is
\* unchanged, otherwise size() is one more; every other pair is unchanged.  With k
\* present it returns the paired value and changes nothing.  at_right_or_default
\* likewise with the default left value.
C10_DefaultStep ==
    \A before \in {World}, after \in {WorldAfter} :
        /\ op'[1] = "at_left_or_default" =>
               IF \E p \in Pairs(before, op'[2]) : p[1] = op'[3]
               THEN /\ after = before
                    /\ <<op'[3], ret'>> \in Pairs(before, op'[2])
               ELSE /\ ret' = DefaultKey
                    /\ Found(after, op'[2], op'[3], DefaultKey)
                    /\ Pairs(after, op'[2]) =
                           {p \in Pairs(before, op'[2]) : p[2] # DefaultKey}
                               \cup {<<op'[3], DefaultKey>>}
                    /\ \A p \in Pairs(before, op'[2]) :
                           IF p[2] = DefaultKey
                           THEN find_left(after, op'[2], p[1]) = end_left(op'[2])
                           ELSE Found(after, op'[2], p[1], p[2])
                    /\ after.m_size[op'[2]] =
                           IF \E p \in Pairs(before, op'[2]) : p[2] = DefaultKey
                           THEN before.m_size[op'[2]] ELSE before.m_size[op'[2]] + 1
        /\ op'[1] = "at_right_or_default" =>
               IF \E p \in Pairs(before, op'[2]) : p[2] = op'[3]
               THEN /\ after = before
                    /\ <<ret', op'[3]>> \in Pairs(before, op'[2])
               ELSE /\ ret' = DefaultKey
                    /\ Found(after, op'[2], DefaultKey, op'[3])
                    /\ Pairs(after, op'[2]) =
                           {p \in Pairs(before, op'[2]) : p[1] # DefaultKey}
                               \cup {<<DefaultKey, op'[3]>>}
                    /\ \A p \in Pairs(before, op'[2]) :
                           IF p[1] = DefaultKey
                           THEN find_right(after, op'[2], p[2]) = end_right(op'[2])
                           ELSE Found(after, op'[2], p[1], p[2])
                    /\ after.m_size[op'[2]] =
                           IF \E p \in Pairs(before, op'[2]) : p[1] = DefaultKey
                           THEN before.m_size[op'[2]] ELSE before.m_size[op'[2]] + 1

C10_AtOrDefault == [][C10_DefaultStep]_vars

\* C10 witness: at_right_or_default took the default left value from the pair at
\* the root of the left tree, which had a left child there
C10_Witness ==
    /\ op[1] = "at_right_or_default"
    /\ erased.left.children = "left"
    /\ erased.left.root
    /\ ret = DefaultKey
    /\ Found(World, "a", DefaultKey, op[3])
    /\ m_size["a"] = MaxRec - 1

\* C11: move-constructing or move-assigning a container from a source transfers
\* the source's records to the destination and leaves the source empty: size() is
\* 0 and begin_left() is end_left().
C11_MoveStep ==
    \A before \in {World}, after \in {WorldAfter} :
        (op'[1] \in {"move_construct", "move_assign"} /\ op'[2] # op'[3]) =>
            /\ Pairs(after, op'[2]) = Pairs(before, op'[3])
            /\ after.m_size[op'[2]] = before.m_size[op'[3]]
            /\ after.m_size[op'[3]] = 0
            /\ begin_left(after, op'[3]) = end_left(op'[3])

C11_MoveEmptiesSource == [][C11_MoveStep]_vars

\* the nodes of a container: its sentinel's two sub-objects and what they link
OwnNodes(w, c) ==
    {left_sentinel(c), right_sentinel(c)}
        \cup TreeNodes(w, left_sentinel(c)) \cup TreeNodes(w, right_sentinel(c))

\* all that belongs to a container: its size, its nodes with their relations, its
\* records with their keys
ContainerView(w, c) ==
    [size |-> w.m_size[c],
     parent |-> [n \in OwnNodes(w, c) |-> w.parent[n]],
     left |-> [n \in OwnNodes(w, c) |-> w.left[n]],
     right |-> [n \in OwnNodes(w, c) |-> w.right[n]],
     left_key |-> [s \in LeftRecords(w, c) |-> w.left_key[s]],
     right_key |-> [s \in RightRecords(w, c) |-> w.right_key[s]],
     live |-> (LeftRecords(w, c) \cup RightRecords(w, c)) \cap w.live]

\* C12: copy construction, and copy assignment a = b of distinct containers, yield
\* a container equal to the source that shares no record with it; copy assignment
\* releases every record the destination held, and self-assignment changes
\* nothing; an insert, erase or default-access on one container leaves the size,
\* trees and pairs of the other unchanged.
C12_CopyStep ==
    \A before \in {World}, after \in {WorldAfter} :
        /\ (op'[1] \in {"copy_construct", "copy_assign"} /\ op'[2] = op'[3]) =>
               after = before
        /\ (op'[1] \in {"copy_construct", "copy_assign"} /\ op'[2] # op'[3]) =>
               /\ OwnNodes(after, op'[2]) \cap OwnNodes(after, op'[3]) = {}
               /\ ContainerView(after, op'[3]) = ContainerView(before, op'[3])
               /\ Pairs(after, op'[2]) = Pairs(before, op'[3])
               /\ bimap_equal(after, op'[2], op'[3])
               /\ LeftRecords(after, op'[2]) \subseteq after.live
               /\ op'[1] = "copy_assign" =>
                      LeftRecords(before, op'[2]) \cap after.live = {}
               /\ after.fault = {}
        /\ op'[1] \in {"insert", "erase_left", "at_left_or_default"} =>
               \A d \in Containers \ {op'[2]} :
                   ContainerView(after, d) = ContainerView(before, d)

C12_CopyIndependent == [][C12_CopyStep]_vars

\* C12 witness: a container of two pairs has been copy-constructed from one whose
\* left tree has another shape, and the two share no record
C12_Witness ==
    /\ op[1] = "copy_construct"
    /\ m_size[op[2]] = 2
    /\ Pairs(World, op[2]) = Pairs(World, op[3])
    /\ LeftRecords(World, op[2]) \cap LeftRecords(World, op[3]) = {}
    /\ left[left[left_sentinel(op[3])]] # NULL
    /\ left[left[left_sentinel(op[2])]] = NULL

\* a set of pairs as the sequence of its members in increasing left-key order
RECURSIVE InLeftOrder(_)
InLeftOrder(S) ==
    IF S = {} THEN <<>>
    ELSE LET m == CHOOSE p \in S : \A q \in S : ~less(q[1], p[1])
         IN  <<m>> \o InLeftOrder(S \ {m})

\* two containers have the same size and, in left order, pairwise equivalent pairs
SameInLockStep(w, a, b) ==
    LET sa == InLeftOrder(Pairs(w, a))
        sb == InLeftOrder(Pairs(w, b))
    IN  /\ w.m_size[a] = w.m_size[b]
        /\ Len(sa) = Len(sb)
        /\ \A i \in 1..Len(sa) :
               equals(sa[i][1], sb[i][1]) /\ equals(sa[i][2], sb[i][2])

\* C13: a == b holds if and only if a and b have the same size and, in left order
\* in lock-step, pairwise equivalent left keys and right keys; it is reflexive and
\* symmetric, holds for equal sets of pairs whatever the shapes of the trees,
\* a != b is its negation, and the comparison changes nothing.
C13_EqualStep ==
    \A before \in {World}, after \in {WorldAfter} :
        op'[1] = "equal" =>
            /\ ret' = SameInLockStep(before, op'[2], op'[3])
            /\ ret' = bimap_equal(before, op'[3], op'[2])
            /\ op'[2] = op'[3] => ret'
            /\ Pairs(before, op'[2]) = Pairs(before, op'[3]) => ret'
            /\ bimap_not_equal(before, op'[2], op'[3]) = ~ret'
            /\ after = before

C13_Equality == [][C13_EqualStep]_vars

\* C13 witness: two containers of two pairs compare equal while their left trees
\* have different shapes
C13_Witness ==
    /\ op[1] = "equal"
    /\ op[2] # op[3]
    /\ ret = TRUE
    /\ m_size[op[2]] = 2
    /\ left[left[left_sentinel(op[2])]] # NULL
    /\ left[left[left_sentinel(op[3])]] = NULL

\* the sentinel node of a container's tree of `side`
SentinelNode(side, c) == IF side = "left" THEN left_sentinel(c) ELSE right_sentinel(c)

\* the records a call erases: the one its cursor addresses, the one holding its
\* key, or the one at_*_or_default takes the default value from
ErasedBy(w, call) ==
    LET c == call[2]
        at(side, it) == IF it = SentinelNode(side, c) THEN {} ELSE {ToBased(side, it)}
    IN  CASE call[1] = "erase_left" -> {ToBased("left", call[3])}
          [] call[1] = "erase_right" -> {ToBased("right", call[3])}
          [] call[1] = "erase_left_key" -> at("left", find_left(w, c, call[3]))
          [] call[1] = "erase_right_key" -> at("right", find_right(w, c, call[3]))
          [] call[1] = "at_left_or_default" ->
                 IF find_left(w, c, call[3]) # end_left(c) THEN {}
                 ELSE at("right", find_right(w, c, DefaultKey))
          [] call[1] = "at_right_or_default" ->
                 IF find_right(w, c, call[3]) # end_right(c) THEN {}
                 ELSE at("left", find_left(w, c, DefaultKey))
          [] OTHER -> {}

\* the node of a tree with the least key greater than `key`, or the sentinel
SuccessorIn(w, side, sentinel, key) ==
    LET above == {n \in TreeNodes(w, sentinel) : less(key, get_key(w, side, n))}
    IN  IF above = {} THEN sentinel
        ELSE CHOOSE n \in above :
                 \A m \in above : ~less(get_key(w, side, m), get_key(w, side, n))

\* C14: after insert, an erase, or at_*_or_default, every cursor of either side
\* that addressed a live record other than the erased one still addresses that
\* record: the record is allocated and linked, the cursor dereferences to the same
\* key, flips to the same record, and its increment is the record's in-order
\* successor in the tree as it is now.
C14_CursorStep ==
    \A before \in {World}, after \in {WorldAfter} :
        op'[1] \in {"insert", "erase_left", "erase_right", "erase_left_key",
                    "erase_right_key", "at_left_or_default", "at_right_or_default"} =>
            \A s \in LeftRecords(before, op'[2]) \ ErasedBy(before, op') :
                \A side \in {"left", "right"} :
                    /\ s \in after.live
                    /\ after.left_key[s] = before.left_key[s]
                    /\ after.right_key[s] = before.right_key[s]
                    /\ ToBase(side, s) \in TreeNodes(after, SentinelNode(side, op'[2]))
                    /\ deref(after, side, ToBase(side, s))
                           = deref(before, side, ToBase(side, s))
                    /\ flip(side, ToBase(side, s)) = ToBase(Other(side), s)
                    /\ deref(after, Other(side), flip(side, ToBase(side, s)))
                           = deref(before, Other(side), flip(side, ToBase(side, s)))
                    /\ Increment(after, ToBase(side, s))
                           = SuccessorIn(after, side, SentinelNode(side, op'[2]),
                                         get_key(before, side, ToBase(side, s)))

C14_CursorsStayValid == [][C14_CursorStep]_vars

\* C14 witness: erase_right of a node with two children in the right tree has left
\* two other records, one of them the predecessor that took its place
C14_Witness ==
    /\ op[1] = "erase_right"
    /\ erased.right.children = "two, predecessor near"
    /\ erased.right.root
    /\ m_size["a"] = MaxRec - 1
    /\ right[left[right_sentinel("a")]] # NULL

\* the records at the cursors of a walk
RecordsOf(side, walk) == {ToBased(side, walk[i]) : i \in DOMAIN walk}

\* what erase(first, last) of tree `side` must leave: the records of [first, last)
\* are gone from both sides, all others are in place, size() has dropped by their
\* number, and last is returned
RangeErased(before, after, side, c, first, last) ==
    LET range == RecordsOf(side, Walk(before, first, last, Cardinality(NodeAddr)))
        kept == LeftRecords(before, c) \ range
    IN  /\ ret' = last
        /\ after.m_size[c] = before.m_size[c] - Cardinality(range)
        /\ after.live = before.live \ range
        /\ after.fault = {}
        /\ \A s \in range :
               /\ find_left(after, c, before.left_key[s]) = end_left(c)
               /\ find_right(after, c, before.right_key[s]) = end_right(c)
        /\ \A s \in kept :
               /\ after.left_key[s] = before.left_key[s]
               /\ after.right_key[s] = before.right_key[s]
               /\ find_left(after, c, before.left_key[s]) = ToBase("left", s)
               /\ find_right(after, c, before.right_key[s]) = ToBase("right", s)
        /\ LeftRecords(after, c) = kept
        /\ RightRecords(after, c) = kept
        /\ (first = set_begin(before, SentinelNode(side, c))
                /\ last = SentinelNode(side, c)) =>
               /\ after.m_size[c] = 0
               /\ begin_left(after, c) = end_left(c)
               /\ begin_right(after, c) = end_right(c)

\* C15: erase_left(first, last), last reachable from first by increments, removes
\* from both sides exactly the pairs at the left-order positions of [first, last),
\* leaves every other pair (the one at last included) in place, lowers size() by
\* the number removed and returns last; erase_right(first, last) likewise in right
\* order; from begin to end the container becomes empty.
C15_RangeStep ==
    \A before \in {World}, after \in {WorldAfter} :
        /\ op'[1] = "erase_left_range" =>
               RangeErased(before, after, "left", op'[2], op'[3], op'[4])
        /\ op'[1] = "erase_right_range" =>
               RangeErased(before, after, "right", op'[2], op'[3], op'[4])

C15_RangeErase == [][C15_RangeStep]_vars

\* C15 witness: erase_left(first, end_left()) with first at the root of a left tree
\* of three, which has two children: the two greater pairs are gone, the least is left
C15_Witness ==
    /\ op[1] = "erase_left_range"
    /\ erased.left.children = "two, predecessor near"
    /\ op[4] = end_left("a")
    /\ ret = end_left("a")
    /\ m_size["a"] = MaxRec - 2
    /\ Cardinality(live) = MaxRec - 2

\* the records linked in the left trees, and in the right trees, of the containers
AllLeftRecords(w) == UNION {LeftRecords(w, c) : c \in Containers}
AllRightRecords(w) == UNION {RightRecords(w, c) : c \in Containers}

\* C16: between public operations the records allocated and not released are
\* exactly the records linked in the trees of a live container; no operation
\* deletes a record twice or while a tree links it, or leaves an unlinked record
\* allocated (the temporary of the copy assignment keeps none); a record is
\* allocated only by an insert that passes its test, directly, through
\* at_*_or_default or through a copy; no other operation allocates.
C16_LifetimeStep ==
    \A before \in {World}, after \in {WorldAfter} :
        /\ after.fault = {}
        /\ after.live = AllLeftRecords(after)
        /\ after.live = AllRightRecords(after)
        /\ LeftRecords(after, "tmp") = {}
        /\ RightRecords(after, "tmp") = {}
        /\ op'[1] = "insert" =>
               /\ before.live \subseteq after.live
               /\ Cardinality(after.live \ before.live) =
                      IF WouldInsert(before, op'[2], op'[3], op'[4]) THEN 1 ELSE 0
        /\ op'[1] \in {"at_left_or_default", "at_right_or_default"} =>
               Cardinality(after.live) =
                   Cardinality(before.live \ ErasedBy(before, op'))
                       + (IF after = before THEN 0 ELSE 1)
        /\ op'[1] \in {"erase_left", "erase_right", "erase_left_key", "erase_right_key"} =>
               after.live = before.live \ ErasedBy(before, op')
        /\ op'[1] \in {"erase_left_range", "erase_right_range"} =>
               after.live \subseteq before.live
        /\ op'[1] = "swap" => after.live = before.live
        /\ op'[1] \in {"copy_assign", "move_assign", "copy_construct", "move_construct"} =>
               LeftRecords(after, op'[3]) = LeftRecords(before, op'[3])

C16_RecordLifetime == [][C16_LifetimeStep]_vars

\* C16 witness: erase_left(begin_left(), end_left()) has released both records of
\* one container while the other container keeps its own
C16_Witness ==
    /\ op[1] = "erase_left_range"
    /\ erased.left.children = "right"
    /\ erased.left.root
    /\ op[4] = end_left(op[2])
    /\ m_size[op[2]] = 0
    /\ ToBased("left", op[3]) \notin live
    /\ Cardinality(live) = 1
    /\ fault = {}

\* the keys looked up in SpecDeep: every key of DeepKey, one below and one above
QueryKey == (DefaultKey - 1)..DeepRec

\* the node of a tree with the least key not less than `key`, or the sentinel
FirstNotLess(w, side, sentinel, key) ==
    LET cands == {n \in TreeNodes(w, sentinel) : ~less(get_key(w, side, n), key)}
    IN  IF cands = {} THEN sentinel
        ELSE CHOOSE n \in cands :
                 \A m \in cands : ~less(get_key(w, side, m), get_key(w, side, n))

\* the node of a tree with a key equivalent to `key`, or the sentinel
NodeWithKey(w, side, sentinel, key) ==
    LET same == {n \in TreeNodes(w, sentinel) : equals(get_key(w, side, n), key)}
    IN  IF same = {} THEN sentinel ELSE CHOOSE n \in same : TRUE

\* C17: in every reachable tree state and for every key k, lower_bound_left(k) is
\* the cursor of the live pair with the least left key not less than k,
\* upper_bound_left(k) of the one with the least left key greater than k, each
\* end_left() when there is none (as on an empty container); likewise on the right;
\* find returns the element equivalent to k or end.
C17_Bounds ==
    \A w \in {World} : \A k \in QueryKey :
        /\ lower_bound_left(w, "a", k) = FirstNotLess(w, "left", left_sentinel("a"), k)
        /\ upper_bound_left(w, "a", k) = SuccessorIn(w, "left", left_sentinel("a"), k)
        /\ find_left(w, "a", k) = NodeWithKey(w, "left", left_sentinel("a"), k)
        /\ lower_bound_right(w, "a", k)
               = FirstNotLess(w, "right", right_sentinel("a"), k)
        /\ upper_bound_right(w, "a", k)
               = SuccessorIn(w, "right", right_sentinel("a"), k)
        /\ find_right(w, "a", k) = NodeWithKey(w, "right", right_sentinel("a"), k)

\* C17 witness: for an absent key the search turns left at the root, finds nothing
\* below in a left subtree two deep, and so both bounds are the root
C17_Witness ==
    /\ m_size["a"] = DeepRec - 1
    /\ right[left[left_sentinel("a")]] = NULL
    /\ right[left[left[left_sentinel("a")]]] # NULL
    /\ \E k \in DeepKey :
           /\ find_left(World, "a", k) = end_left("a")
           /\ lower_bound_left(World, "a", k) = left[left_sentinel("a")]
           /\ upper_bound_left(World, "a", k) = left[left_sentinel("a")]
           /\ less(get_key(World, "left", right[left[left[left_sentinel("a")]]]), k)

\* whether following parents from `node` arrives at `sentinel` within `fuel` steps
RECURSIVE ReachesSentinel(_, _, _, _)
ReachesSentinel(w, node, sentinel, fuel) ==
    IF node = sentinel THEN TRUE
    ELSE IF node = NULL \/ fuel = 0 THEN FALSE
    ELSE ReachesSentinel(w, w.parent[node], sentinel, fuel - 1)

\* the child slots that hold `node`
SlotsHolding(w, node) ==
    {<<m, "left">> : m \in {x \in NodeAddr : w.left[x] = node}}
        \cup {<<m, "right">> : m \in {x \in NodeAddr : w.right[x] = node}}

\* the tree bound to `sentinel` is well linked
WellLinked(w, side, sentinel) ==
    /\ w.parent[sentinel] = NULL
    /\ w.right[sentinel] = NULL
    /\ \A n \in NodeAddr :
           /\ w.left[n] # NULL => w.parent[w.left[n]] = n
           /\ w.right[n] # NULL => w.parent[w.right[n]] = n
    /\ \A n \in TreeNodes(w, sentinel) :
           /\ ReachesSentinel(w, n, sentinel, Cardinality(NodeAddr))
           /\ ToBased(side, n) \in w.live
    /\ \A s \in w.live :
           /\ Cardinality(SlotsHolding(w, ToBase(side, s))) = 1
           /\ ToBase(side, s) \in TreeNodes(w, sentinel)

\* C18: after every tree-level insert and erase each tree is well linked: the
\* sentinel has no parent and no right child and its left child is the root; every
\* child's parent is the node that holds it; every linked node reaches the
\* sentinel through parents; each live record is in exactly one child slot of the
\* left tree and one of the right tree; and the node of an erased record has no
\* parent and no child and is referenced by no node.
C18_WellFormedLinks ==
    \A w \in {World} :
        /\ WellLinked(w, "left", left_sentinel("a"))
        /\ WellLinked(w, "right", right_sentinel("a"))
        /\ \A s \in DeepPool \ w.live : ~Linked(w, s)

\* C18 witness: the links after erase_right of a node with two children and a far
\* predecessor in the right tree, which had only a left child in the left tree
C18_Witness ==
    /\ op[1] = "erase_right"
    /\ erased.right.children = "two, predecessor far"
    /\ erased.left.children = "left"
    /\ m_size["a"] = DeepRec - 1
    /\ ~Linked(World, ToBased("right", op[3]))

\* the root of the tree bound to `sentinel`, if any, has that sentinel as parent
RootBelongsTo(w, sentinel) ==
    w.left[sentinel] # NULL => w.parent[w.left[sentinel]] = sentinel

\* container c has taken over what container `from` held in `before`
TookOver(before, after, c, from) ==
    /\ RootBelongsTo(after, left_sentinel(c))
    /\ RootBelongsTo(after, right_sentinel(c))
    /\ after.m_size[c] = before.m_size[from]
    /\ LeftRecords(after, c) = LeftRecords(before, from)
    /\ RightRecords(after, c) = RightRecords(before, from)
    /\ Pairs(after, c) = Pairs(before, from)
    /\ VisitsInOrder(after, "left", LeftWalk(after, c), LeftRecords(before, from))
    /\ VisitsInOrder(after, "right", RightWalk(after, c), RightRecords(before, from))

\* C19: a.swap(b) leaves a with the pairs and the size b had and b with those a
\* had; the root of each tree of each container has that container's sentinel as
\* parent, and a walk from begin reaches that container's end on both sides
\* having visited exactly its records; so it is when one or both are empty; and
\* swapping once more restores the state before the swap.
C19_SwapStep ==
    \A before \in {World}, after \in {WorldAfter} :
        op'[1] = "swap" =>
            /\ TookOver(before, after, op'[2], op'[3])
            /\ TookOver(before, after, op'[3], op'[2])
            /\ after.live = before.live
            /\ after.fault = before.fault
            /\ swap(after, op'[2], op'[3]) = before

C19_SwapExchanges == [][C19_SwapStep]_vars

\* C19 witness: a swap of two distinct non-empty containers of different sizes
C19_Witness ==
    /\ op[1] = "swap"
    /\ op[2] # op[3]
    /\ m_size[op[2]] = 1
    /\ m_size[op[3]] = 2
    /\ Cardinality(TreeNodes(World, left_sentinel(op[3]))) = 2
    /\ parent[left[right_sentinel(op[2])]] = right_sentinel(op[2])

\* the node holding the greatest key of tree `side` among `nodes`
Greatest(w, side, nodes) ==
    CHOOSE n \in nodes : \A m \in nodes : ~less(get_key(w, side, n), get_key(w, side, m))

\* in the tree bound to `sentinel`, -- undoes ++ from every element
DecrementUndoesIncrement(w, side, sentinel) ==
    \A nodes \in {TreeNodes(w, sentinel)} :
        /\ \A n \in nodes : Decrement(w, Increment(w, n)) = n
        /\ nodes # {} =>
               /\ Increment(w, Greatest(w, side, nodes)) = set_end(sentinel)
               /\ Decrement(w, set_end(sentinel)) = Greatest(w, side, nodes)
        /\ nodes = {} => set_begin(w, sentinel) = set_end(sentinel)

\* C20: on either side, decrementing the result of incrementing a cursor on a
\* live element gives that cursor back, also when the increment gives end(), so
\* that decrementing end() of a non-empty tree gives the element with the greatest
\* key; and begin() of an empty tree is end().
C20_DecrementInverse ==
    \A w \in {World} :
        /\ DecrementUndoesIncrement(w, "left", left_sentinel("a"))
        /\ DecrementUndoesIncrement(w, "right", right_sentinel("a"))

\* C20 witness: a full left tree whose greatest element is not the root, so that
\* -- from end() descends more than one step, and in which the successor of the
\* root is not its right child
C20_Witness ==
    /\ m_size["a"] = DeepRec
    /\ \E root \in {left[left_sentinel("a")]} :
           /\ right[root] # NULL
           /\ left[right[root]] # NULL
           /\ Increment(World, root) # right[root]
           /\ Decrement(World, left_sentinel("a")) # root
           /\ Increment(World, Decrement(World, left_sentinel("a"))) = left_sentinel("a")

====
